---- MODULE Spec2Model ----
(***************************************************************************)
(* ExitGuard backend (src/backend/app.py): the risk engine, the session    *)
(* aggregator (/api/track), the intervention and conversion recorders and  *)
(* the session store (Redis, or the in-process dict sessions_memory).      *)
(*                                                                         *)
(* Numbers.  A behaviour counter is an int or a float in the code.  The    *)
(* model keeps a counter as an integer number of 1/Denom units, Denom a    *)
(* power of two, so that fractional counters exist and int() of the        *)
(* weighted score truncates.  Binary floating point holds such counters    *)
(* and the sums and products the code forms of them exactly.  NaN and the  *)
(* infinities, which json accepts, are not among the counters modelled.    *)
(*                                                                         *)
(* Fields left out of the session record: mood_scores and mood_confidence  *)
(* (lines 461-462; written and never read by the handlers modelled here).  *)
(***************************************************************************)
EXTENDS Integers, Sequences, FiniteSets, TLC

VARIABLES
    redis_client,    \* line 34-46: TRUE when the Redis connection was made at start-up
    redis,           \* Redis: session id -> the stored (serialised) session, live keys only
    ttl,             \* Redis: session id -> seconds left before the key expires
    sessions_memory, \* line 70: session id -> the session dict object it holds
    pc,              \* per request thread: the statement it is about to execute
    req,             \* per request thread: request.json
    session,         \* per request thread: the dict its local `session` names, when no
                     \* other name reaches that dict
    shared,          \* per request thread: TRUE when its local `session` names the very
                     \* dict object held by sessions_memory[session_id]
    tmp,             \* per request thread: the other locals of the handler
    resp,            \* per request thread: the response it returned
    served,          \* the number of requests taken so far
    redis_down,      \* TRUE while the Redis server cannot be reached: a call on
                     \* redis_client raises
    since_conversion, \* no state of the code: session id -> the seconds gone by
                     \* since a conversion of the session was last stored
    probe            \* SpecRisk, SpecRaise and SpecViews only: one call of the risk engine, or
                     \* of a dashboard view, argument and results

\* Resolution of the counters: the number of binary places after the point
FracBits == 1

\* A counter value c stands for c / Denom.
Denom == 2 ^ FracBits

Min(a, b) == IF a <= b THEN a ELSE b

Max(a, b) == IF a >= b THEN a ELSE b

\* dict.get(key, 0)
Get(d, k) == IF k \in DOMAIN d THEN d[k] ELSE 0

----------------------------------------------------------------------------
(* Risk engine, lines 241-321 *)

\* A faulty variant: the rage-click threshold back at 3 (the value the comment
\* on line 256 says it was reduced from).
frustration_signals_old_threshold(behaviors) ==
    (IF Get(behaviors, "rageClicks") >= 3 * Denom THEN 1 ELSE 0)
    + (IF Get(behaviors, "deadClicks") >= 2 * Denom THEN 1 ELSE 0)
    + (IF Get(behaviors, "hesitations") >= 3 * Denom THEN 1 ELSE 0)
    + (IF Get(behaviors, "idleTime") >= 20 * Denom THEN 1 ELSE 0)
    + (IF Get(behaviors, "mouseJiggles") >= 6 * Denom THEN 1 ELSE 0)

\* lines 253-265: the number of thresholds crossed
frustration_signals(behaviors) ==
    (IF Get(behaviors, "rageClicks") >= 2 * Denom THEN 1 ELSE 0)
    + (IF Get(behaviors, "deadClicks") >= 2 * Denom THEN 1 ELSE 0)
    + (IF Get(behaviors, "hesitations") >= 3 * Denom THEN 1 ELSE 0)
    + (IF Get(behaviors, "idleTime") >= 20 * Denom THEN 1 ELSE 0)
    + (IF Get(behaviors, "mouseJiggles") >= 6 * Denom THEN 1 ELSE 0)

\* A faulty variant: scroll_count back in the weighted sum (line 279 removed it).
weighted_score_with_scroll(behaviors) ==
    2 * (Get(behaviors, "rageClicks") * 20
         + Get(behaviors, "deadClicks") * 10
         + Get(behaviors, "hesitations") * 5
         + Get(behaviors, "mouseJiggles") * 2
         + Get(behaviors, "scrollCount"))
    + Min(Get(behaviors, "idleTime"), 15 * 2 * Denom) * 2

\* lines 273-280: the weighted sum, in units of 1 / (2 * Denom).  idle_time / 2
\* is idle_time in these units and 15 is 15 * 2 * Denom.
weighted_score(behaviors) ==
    2 * (Get(behaviors, "rageClicks") * 20
         + Get(behaviors, "deadClicks") * 10
         + Get(behaviors, "hesitations") * 5
         + Get(behaviors, "mouseJiggles") * 2)
    + Min(Get(behaviors, "idleTime"), 15 * 2 * Denom) * 2

\* A faulty variant: the normalisation of line 283 without min(100, ...).
normalize_unclamped(score) == score \div (2 * Denom)

\* line 283: min(100, int(score)); score >= 0, so int() is the floor
normalize(score) == Min(100, score \div (2 * Denom))

\* lines 241-285
calculate_churn_risk(behaviors) ==
    IF frustration_signals(behaviors) < 2
    THEN Min(20, frustration_signals(behaviors) * 10)
    ELSE normalize(weighted_score(behaviors))

RECURSIVE Join(_)
\* " + ".join(causes), for a non-empty list
Join(causes) ==
    IF Len(causes) = 1 THEN causes[1]
    ELSE causes[1] \o " + " \o Join(Tail(causes))

\* A faulty variant: the idle threshold of the scoring gate (20) used for the cause.
causes_idle_20(behaviors) ==
    (IF Get(behaviors, "rageClicks") >= 2 * Denom
     THEN <<"High frustration (rage clicks detected)">> ELSE <<>>)
    \o (IF Get(behaviors, "deadClicks") >= 2 * Denom
        THEN <<"UI responsiveness issues (dead clicks)">> ELSE <<>>)
    \o (IF Get(behaviors, "idleTime") >= 20 * Denom
        THEN <<"User confusion or distraction (extended idle)">> ELSE <<>>)
    \o (IF Get(behaviors, "hesitations") >= 3 * Denom
        THEN <<"Purchase hesitation">> ELSE <<>>)

\* lines 296-305: the list causes
causes_of(behaviors) ==
    (IF Get(behaviors, "rageClicks") >= 2 * Denom
     THEN <<"High frustration (rage clicks detected)">> ELSE <<>>)
    \o (IF Get(behaviors, "deadClicks") >= 2 * Denom
        THEN <<"UI responsiveness issues (dead clicks)">> ELSE <<>>)
    \o (IF Get(behaviors, "idleTime") >= 15 * Denom
        THEN <<"User confusion or distraction (extended idle)">> ELSE <<>>)
    \o (IF Get(behaviors, "hesitations") >= 3 * Denom
        THEN <<"Purchase hesitation">> ELSE <<>>)

\* lines 287-310
identify_root_cause(behaviors) ==
    IF causes_of(behaviors) = <<>> THEN "Normal user behavior"
    ELSE Join(causes_of(behaviors))

\* lines 312-321
suggest_intervention(risk_score, root_cause) ==
    IF risk_score < 30 THEN "Monitor session - no intervention needed"
    ELSE IF risk_score < 60
         THEN "Prepare proactive outreach - user showing mild frustration"
         ELSE "IMMEDIATE INTERVENTION - Trigger discount popup or live chat"

----------------------------------------------------------------------------
(* Session store, lines 69-102, and the data of a request *)

\* The request threads of the server (app.run, line 740: Flask's threaded
\* development server).  With two threads, a dict dropped from sessions_memory
\* is named by at most one thread, which is what `session` / `shared` rely on.
Workers == {"w1", "w2"}

\* Python's None, and a value that is not None
None == <<>>

Some(v) == <<v>>

\* line 82
TTL_TRACK == 300

\* line 632
TTL_CONVERSION == 3600

\* lines 177-183
valid_behaviors ==
    {"rageClicks", "deadClicks", "hesitations", "idleTime", "scrollCount",
     "mouseJiggles", "cartRevisits", "itemAddRemoves", "scrollDirectionChanges",
     "mouseShakeIntensity", "priceAreaTime", "modalToggle", "tabSwitches",
     "mouseExitAttempts", "addToCartActions", "checkoutAttempts"}

\* The session ids of the requests whose characters all match line 154's
\* [a-zA-Z0-9\-_]; "bad id" holds a space.
MatchesCharset(session_id) == session_id \in {"s1", "s2"}

\* lines 147-156
validate_session_id(session_id) ==
    /\ session_id # ""
    /\ Len(session_id) <= 100
    /\ MatchesCharset(session_id)

\* An item of a behaviors object is <<key, value>> when the JSON value is a
\* number, <<key, 0, "string">> when it is a string, and <<key, 1, "bool">> (in
\* units of 1 / Denom) when it is true, which Python computes with as 1.

\* line 187: isinstance(value, (int, float)); bool is a subclass of int
is_number(item) == Len(item) = 2 \/ item[3] = "bool"

RECURSIVE first_bad_item(_)
\* lines 184-188: the message for the first item of behaviors.items() that is
\* refused, "" when none is.
first_bad_item(items) ==
    IF items = <<>> THEN ""
    ELSE IF items[1][1] \notin valid_behaviors
         THEN "Unknown behavior type: " \o items[1][1]
         ELSE IF ~is_number(items[1]) \/ items[1][2] < 0
              THEN "Invalid value for " \o items[1][1]
              ELSE first_bad_item(Tail(items))

\* lines 158-190: the error message, "" when the data is valid
validate_behavior_data(data) ==
    IF "session_id" \notin DOMAIN data THEN "Missing required field: session_id"
    ELSE IF "behaviors" \notin DOMAIN data THEN "Missing required field: behaviors"
    ELSE IF ~validate_session_id(data.session_id) THEN "Invalid session ID format"
    ELSE first_bad_item(data.behaviors)

\* lines 411-438
new_session(session_id, timestamp) ==
    [session_id |-> session_id,
     start_time |-> timestamp,
     last_active |-> timestamp,
     events |-> <<>>,
     behaviors |-> [rageClicks |-> 0, deadClicks |-> 0, idleTime |-> 0,
                    hesitations |-> 0, scrollCount |-> 0, mouseJiggles |-> 0],
     risk_score |-> 0,
     root_cause |-> "Normal user behavior",
     suggested_action |-> "Monitor session",
     intervention_triggered |-> FALSE,
     intervention_type |-> None,
     intervention_time |-> None,
     conversion_status |-> "pending",
     order_value |-> 0,
     converted_at |-> None,
     mood |-> "neutral",
     mood_history |-> <<>>]

\* A thread that is not in a handler
NoRequest == [op |-> "none"]

NoSession == [session_id |-> ""]

\* read is no local of the code: it keeps the session as the handler found it
\* (line 408, or lines 620-621 for the conversion), for the properties below to refer to.
NoLocals == [i |-> 0, flag |-> FALSE, risk_score |-> 0, root_cause |-> "",
             suggested_action |-> "", read |-> NoSession]

NoResponse == [status |-> 0]

\* The store the server was started with, as a map
Store == IF redis_client THEN redis ELSE sessions_memory

\* lines 79-90 and 94-102: the helpers work on sessions_memory when there is no
\* redis_client (the else branch) or when the call on it raises (the except
\* branch)
UseMemory == ~redis_client \/ redis_down

\* The map get_session_redis reads
Backend == IF UseMemory THEN sessions_memory ELSE redis

\* The dict object thread w's local `session` names
Obj(w) == IF shared[w] THEN sessions_memory[req[w].session_id] ELSE session[w]

\* An assignment to that dict object: it shows in sessions_memory when the
\* object is the one sessions_memory holds.
SetObj(w, v) ==
    IF shared[w]
    THEN /\ sessions_memory' = [sessions_memory EXCEPT ![req[w].session_id] = v]
         /\ session' = session
    ELSE /\ session' = [session EXCEPT ![w] = v]
         /\ sessions_memory' = sessions_memory

\* lines 92-102: whether get_session_redis finds the session
Found(session_id) == session_id \in DOMAIN Backend

\* lines 92-102: json.loads gives the thread a dict of its own,
\* sessions_memory.get gives it the stored dict itself.  absent is the value of
\* `session` when there is none (None, or the new dict of lines 411-438).
Load(w, data, absent) ==
    /\ req' = [req EXCEPT ![w] = data]
    /\ shared' = [shared EXCEPT ![w] = UseMemory /\ Found(data.session_id)]
    /\ session' = [session EXCEPT ![w] =
                       IF ~Found(data.session_id) THEN absent
                       ELSE IF ~UseMemory THEN redis[data.session_id]
                            ELSE NoSession]

\* lines 79-90 and 629-636: setex(key, seconds, json.dumps(session)), or
\* sessions_memory[session_id] = session.  The assignment makes the thread's
\* dict the stored one; a thread whose `session` named the dict stored before
\* keeps that dict, now its own.
Put(w, seconds) ==
    IF ~UseMemory
    THEN /\ redis' = (req[w].session_id :> Obj(w)) @@ redis
         /\ ttl' = (req[w].session_id :> seconds) @@ ttl
         /\ UNCHANGED <<sessions_memory, session, shared>>
    ELSE /\ UNCHANGED <<redis, ttl>>
         /\ IF shared[w]
            THEN UNCHANGED <<sessions_memory, session, shared>>
            ELSE /\ sessions_memory' =
                       (req[w].session_id :> session[w]) @@ sessions_memory
                 /\ session' = [v \in Workers |->
                       IF v # w /\ shared[v] /\ req[v].session_id = req[w].session_id
                       THEN sessions_memory[req[w].session_id]
                       ELSE IF v = w THEN NoSession ELSE session[v]]
                 /\ shared' = [v \in Workers |->
                       IF v = w THEN TRUE
                       ELSE IF shared[v] /\ req[v].session_id = req[w].session_id
                            THEN FALSE
                            ELSE shared[v]]

\* lines 645-647 (and 487-489, 593-595): the answer to an exception
internal_error == [status |-> 500, error |-> "Internal server error"]

\* return jsonify(...): the response, and the statement the thread is at
Return(w, response) ==
    /\ resp' = [resp EXCEPT ![w] = response]
    /\ pc' = [pc EXCEPT ![w] = "returned"]

Goto(w, label) == pc' = [pc EXCEPT ![w] = label]

----------------------------------------------------------------------------
(* /api/track, lines 380-489.  One action per statement that reads or writes  *)
(* the session dict; the statements between them touch locals only.          *)

\* The session a request for session_id will work on
Current(session_id, timestamp) ==
    IF Found(session_id) THEN Backend[session_id]
    ELSE new_session(session_id, timestamp)

\* Bounds on what a request may add to the two lists that only grow
MaxEvents == 1

MaxHistory == 2

\* lines 386-438: validate, then get or create the session
TrackBegin(w, data) ==
    /\ pc[w] = "idle"
    /\ IF validate_behavior_data(data) # ""
       THEN /\ req' = [req EXCEPT ![w] = data]
            /\ Return(w, [status |-> 400, error |-> validate_behavior_data(data)])
            /\ UNCHANGED <<session, shared, tmp>>
       ELSE /\ Len(Current(data.session_id, data.timestamp).events)
                 + Len(data.events) <= MaxEvents
            /\ \/ data.mood = "neutral"
               \/ Len(Current(data.session_id, data.timestamp).mood_history)
                    < MaxHistory
            /\ Load(w, data, new_session(data.session_id, data.timestamp))
            /\ tmp' = [tmp EXCEPT ![w].read =
                           Current(data.session_id, data.timestamp)]
            /\ Goto(w, "t441")
            /\ resp' = resp
    /\ UNCHANGED <<redis_client, redis_down, since_conversion, redis, ttl, sessions_memory, probe>>

\* line 441
Track441(w) ==
    /\ pc[w] = "t441"
    /\ SetObj(w, [Obj(w) EXCEPT !.last_active = req[w].timestamp])
    /\ Goto(w, "t442")
    /\ UNCHANGED <<redis_client, redis_down, since_conversion, redis, ttl, req, shared, tmp, resp, probe>>

\* line 442, and the start of the loop of line 445
Track442(w) ==
    /\ pc[w] = "t442"
    /\ SetObj(w, [Obj(w) EXCEPT !.events = @ \o req[w].events])
    /\ tmp' = [tmp EXCEPT ![w].i = 1]
    /\ Goto(w, IF req[w].behaviors = <<>> THEN "t449" ELSE "t446")
    /\ UNCHANGED <<redis_client, redis_down, since_conversion, redis, ttl, req, shared, resp, probe>>

\* A faulty variant: the value sent replaces the counter.
merge_overwrite(behaviors, key, value) ==
    (key :> value) @@ behaviors

\* A faulty variant: the counters summed.
merge_sum(behaviors, key, value) ==
    (key :> (Get(behaviors, key) + value)) @@ behaviors

\* line 446: session['behaviors'][key] = max(session['behaviors'].get(key, 0), value)
merge(behaviors, key, value) ==
    (key :> Max(Get(behaviors, key), value)) @@ behaviors

\* lines 445-446: one turn of the loop
Track446(w) ==
    /\ pc[w] = "t446"
    /\ SetObj(w, [Obj(w) EXCEPT !.behaviors =
                      merge(@, req[w].behaviors[tmp[w].i][1],
                            req[w].behaviors[tmp[w].i][2])])
    /\ tmp' = [tmp EXCEPT ![w].i = @ + 1]
    /\ Goto(w, IF tmp[w].i = Len(req[w].behaviors) THEN "t449" ELSE "t446")
    /\ UNCHANGED <<redis_client, redis_down, since_conversion, redis, ttl, req, shared, resp, probe>>

\* A faulty variant: every mood other than neutral is a change.
mood_not_neutral(mood, s) == mood # "neutral"

\* line 449: mood != 'neutral' and mood != session.get('mood', 'neutral')
mood_changed(mood, s) == mood # "neutral" /\ mood # s.mood

\* line 449: the test
Track449(w) ==
    /\ pc[w] = "t449"
    /\ Goto(w, IF mood_changed(req[w].mood, Obj(w)) THEN "t454" ELSE "t460")
    /\ UNCHANGED <<redis_client, redis_down, since_conversion, redis, ttl, sessions_memory, req, session, shared,
                   tmp, resp, probe>>

\* lines 454-458
Track454(w) ==
    /\ pc[w] = "t454"
    /\ SetObj(w, [Obj(w) EXCEPT !.mood_history =
                      Append(@, [mood |-> req[w].mood,
                                 timestamp |-> req[w].timestamp])])
    /\ Goto(w, "t460")
    /\ UNCHANGED <<redis_client, redis_down, since_conversion, redis, ttl, req, shared, tmp, resp, probe>>

\* line 460
Track460(w) ==
    /\ pc[w] = "t460"
    /\ SetObj(w, [Obj(w) EXCEPT !.mood = req[w].mood])
    /\ Goto(w, "t465")
    /\ UNCHANGED <<redis_client, redis_down, since_conversion, redis, ttl, req, shared, tmp, resp, probe>>

\* A faulty variant: the score of the counters this request sent, not of the
\* session's.
Track465_of_request(w) ==
    /\ pc[w] = "t465"
    /\ tmp' = [tmp EXCEPT ![w].risk_score =
                   calculate_churn_risk(
                       [k \in {req[w].behaviors[i][1] : i \in DOMAIN req[w].behaviors} |->
                           req[w].behaviors[
                               CHOOSE i \in DOMAIN req[w].behaviors :
                                   req[w].behaviors[i][1] = k][2]])]
    /\ Goto(w, "t466")
    /\ UNCHANGED <<redis_client, redis_down, since_conversion, redis, ttl, sessions_memory, req, session, shared,
                   resp, probe>>

\* line 465
Track465(w) ==
    /\ pc[w] = "t465"
    /\ tmp' = [tmp EXCEPT ![w].risk_score = calculate_churn_risk(Obj(w).behaviors)]
    /\ Goto(w, "t466")
    /\ UNCHANGED <<redis_client, redis_down, since_conversion, redis, ttl, sessions_memory, req, session, shared,
                   resp, probe>>

\* lines 466-467
Track466(w) ==
    /\ pc[w] = "t466"
    /\ tmp' = [tmp EXCEPT
                 ![w].root_cause = identify_root_cause(Obj(w).behaviors),
                 ![w].suggested_action =
                     suggest_intervention(tmp[w].risk_score,
                                          identify_root_cause(Obj(w).behaviors))]
    /\ Goto(w, "t470")
    /\ UNCHANGED <<redis_client, redis_down, since_conversion, redis, ttl, sessions_memory, req, session, shared,
                   resp, probe>>

\* line 470
Track470(w) ==
    /\ pc[w] = "t470"
    /\ SetObj(w, [Obj(w) EXCEPT !.risk_score = tmp[w].risk_score])
    /\ Goto(w, "t471")
    /\ UNCHANGED <<redis_client, redis_down, since_conversion, redis, ttl, req, shared, tmp, resp, probe>>

\* line 471
Track471(w) ==
    /\ pc[w] = "t471"
    /\ SetObj(w, [Obj(w) EXCEPT !.root_cause = tmp[w].root_cause])
    /\ Goto(w, "t472")
    /\ UNCHANGED <<redis_client, redis_down, since_conversion, redis, ttl, req, shared, tmp, resp, probe>>

\* line 472
Track472(w) ==
    /\ pc[w] = "t472"
    /\ SetObj(w, [Obj(w) EXCEPT !.suggested_action = tmp[w].suggested_action])
    /\ Goto(w, "t475")
    /\ UNCHANGED <<redis_client, redis_down, since_conversion, redis, ttl, req, shared, tmp, resp, probe>>

\* lines 475-485
Track475(w) ==
    /\ pc[w] = "t475"
    /\ Put(w, TTL_TRACK)
    /\ Return(w, [status |-> 200,
                  success |-> TRUE,
                  session_id |-> req[w].session_id,
                  risk_score |-> tmp[w].risk_score,
                  root_cause |-> tmp[w].root_cause,
                  suggested_action |-> tmp[w].suggested_action,
                  mood |-> req[w].mood])
    /\ UNCHANGED <<redis_client, redis_down, since_conversion, req, tmp, probe>>

\* The response is sent and the thread's locals are dropped
Recycle(w) ==
    /\ pc[w] = "returned"
    /\ pc' = [pc EXCEPT ![w] = "idle"]
    /\ req' = [req EXCEPT ![w] = NoRequest]
    /\ session' = [session EXCEPT ![w] = NoSession]
    /\ shared' = [shared EXCEPT ![w] = FALSE]
    /\ tmp' = [tmp EXCEPT ![w] = NoLocals]
    /\ resp' = [resp EXCEPT ![w] = NoResponse]
    /\ UNCHANGED <<redis_client, redis_down, since_conversion, redis, ttl, sessions_memory, probe>>

----------------------------------------------------------------------------
(* /api/intervention, lines 562-595 *)

\* A faulty variant: the absent session answered as a malformed id.
not_found_as_invalid == [status |-> 400, error |-> "Invalid session ID format"]

\* lines 578 and 616
not_found == [status |-> 404, error |-> "Session not found"]

\* lines 567-578
MarkBegin(w, data) ==
    /\ pc[w] = "idle"
    /\ IF ~validate_session_id(data.session_id)
       THEN /\ req' = [req EXCEPT ![w] = data]
            /\ Return(w, [status |-> 400, error |-> "Invalid session ID format"])
            /\ UNCHANGED <<session, shared>>
       ELSE /\ Load(w, data, NoSession)
            /\ IF Found(data.session_id)
               THEN Goto(w, "i581") /\ resp' = resp
               ELSE Return(w, not_found)
    /\ UNCHANGED <<redis_client, redis_down, since_conversion, redis, ttl, sessions_memory, tmp, probe>>

\* A faulty variant: the mark also counts as activity of the session.
Mark581_touching(w) ==
    /\ pc[w] = "i581"
    /\ SetObj(w, [Obj(w) EXCEPT !.intervention_triggered = TRUE,
                                !.last_active = req[w].timestamp])
    /\ Goto(w, "i582")
    /\ UNCHANGED <<redis_client, redis_down, since_conversion, redis, ttl, req, shared, tmp, resp, probe>>

\* line 581
Mark581(w) ==
    /\ pc[w] = "i581"
    /\ SetObj(w, [Obj(w) EXCEPT !.intervention_triggered = TRUE])
    /\ Goto(w, "i582")
    /\ UNCHANGED <<redis_client, redis_down, since_conversion, redis, ttl, req, shared, tmp, resp, probe>>

\* line 582
Mark582(w) ==
    /\ pc[w] = "i582"
    /\ SetObj(w, [Obj(w) EXCEPT !.intervention_type = Some(req[w].intervention_type)])
    /\ Goto(w, "i583")
    /\ UNCHANGED <<redis_client, redis_down, since_conversion, redis, ttl, req, shared, tmp, resp, probe>>

\* line 583
Mark583(w) ==
    /\ pc[w] = "i583"
    /\ SetObj(w, [Obj(w) EXCEPT !.intervention_time = Some(req[w].timestamp)])
    /\ Goto(w, "i586")
    /\ UNCHANGED <<redis_client, redis_down, since_conversion, redis, ttl, req, shared, tmp, resp, probe>>

\* lines 586-591
Mark586(w) ==
    /\ pc[w] = "i586"
    /\ Put(w, TTL_TRACK)
    /\ Return(w, [status |-> 200, success |-> TRUE,
                  message |-> "Intervention marked successfully"])
    /\ UNCHANGED <<redis_client, redis_down, since_conversion, req, tmp, probe>>

----------------------------------------------------------------------------
(* /api/convert, lines 600-647 *)

\* lines 605-616
ConvertBegin(w, data) ==
    /\ pc[w] = "idle"
    /\ IF ~validate_session_id(data.session_id)
       THEN /\ req' = [req EXCEPT ![w] = data]
            /\ Return(w, [status |-> 400, error |-> "Invalid session ID format"])
            /\ UNCHANGED <<session, shared>>
       ELSE /\ Load(w, data, NoSession)
            /\ IF Found(data.session_id)
               THEN Goto(w, "c620") /\ resp' = resp
               ELSE Return(w, not_found)
    /\ UNCHANGED <<redis_client, redis_down, since_conversion, redis, ttl, sessions_memory, tmp, probe>>

\* A faulty variant: the salvage rule without the intervention.
is_salvaged_risk_only(s) == s.risk_score >= 60

\* lines 620-621
is_salvaged(s) == s.risk_score >= 60 /\ s.intervention_triggered = TRUE

\* lines 620-621
Convert620(w) ==
    /\ pc[w] = "c620"
    /\ tmp' = [tmp EXCEPT ![w].flag = is_salvaged(Obj(w)), ![w].read = Obj(w)]
    /\ Goto(w, "c624")
    /\ UNCHANGED <<redis_client, redis_down, since_conversion, redis, ttl, sessions_memory, req, session, shared,
                   resp, probe>>

\* line 624
Convert624(w) ==
    /\ pc[w] = "c624"
    /\ SetObj(w, [Obj(w) EXCEPT !.conversion_status =
                      IF tmp[w].flag THEN "salvaged" ELSE "converted"])
    /\ Goto(w, "c625")
    /\ UNCHANGED <<redis_client, redis_down, since_conversion, redis, ttl, req, shared, tmp, resp, probe>>

\* line 625
Convert625(w) ==
    /\ pc[w] = "c625"
    /\ SetObj(w, [Obj(w) EXCEPT !.order_value = req[w].order_value])
    /\ Goto(w, "c626")
    /\ UNCHANGED <<redis_client, redis_down, since_conversion, redis, ttl, req, shared, tmp, resp, probe>>

\* line 626
Convert626(w) ==
    /\ pc[w] = "c626"
    /\ SetObj(w, [Obj(w) EXCEPT !.converted_at = Some(req[w].timestamp)])
    /\ Goto(w, "c629")
    /\ UNCHANGED <<redis_client, redis_down, since_conversion, redis, ttl, req, shared, tmp, resp, probe>>

\* lines 629-636
Convert629(w) ==
    /\ pc[w] = "c629"
    /\ IF redis_client /\ redis_down
       THEN /\ Return(w, internal_error)
            /\ UNCHANGED <<redis, ttl, sessions_memory, session, shared,
                           since_conversion>>
       ELSE /\ Put(w, TTL_CONVERSION)
            /\ Goto(w, "c638")
            /\ resp' = resp
            /\ since_conversion' = (req[w].session_id :> 0) @@ since_conversion
    /\ UNCHANGED <<redis_client, redis_down, req, tmp, probe>>

\* lines 638-643
Convert638(w) ==
    /\ pc[w] = "c638"
    /\ Return(w, [status |-> 200, success |-> TRUE,
                  salvaged |-> tmp[w].flag,
                  revenue_saved |-> IF tmp[w].flag THEN req[w].order_value ELSE 0,
                  conversion_status |-> Obj(w).conversion_status])
    /\ UNCHANGED <<redis_client, redis_down, since_conversion, redis, ttl, sessions_memory, req, session, shared,
                   tmp, probe>>

----------------------------------------------------------------------------
(* Redis expiry *)

\* seconds go by: every key has that much less to live, and a key with none
\* left is gone (setex, lines 80-84 and 630-634)
TimePasses(seconds) ==
    /\ redis_client
    /\ DOMAIN redis # {}
    /\ ttl' = [k \in {k \in DOMAIN ttl : ttl[k] > seconds} |-> ttl[k] - seconds]
    /\ redis' = [k \in {k \in DOMAIN ttl : ttl[k] > seconds} |-> redis[k]]
    /\ since_conversion' = [k \in DOMAIN since_conversion |->
                                Min(TTL_CONVERSION, since_conversion[k] + seconds)]
    /\ UNCHANGED <<redis_client, redis_down, sessions_memory, pc, req, session,
                   shared, tmp, resp, served, probe>>

\* The Redis server stops answering, and answers again
RedisFails ==
    /\ redis_client
    /\ ~redis_down
    /\ redis_down' = TRUE
    /\ UNCHANGED <<redis_client, since_conversion, redis, ttl, sessions_memory, pc,
                   req, session, shared, tmp, resp, served, probe>>

RedisRecovers ==
    /\ redis_down
    /\ redis_down' = FALSE
    /\ UNCHANGED <<redis_client, since_conversion, redis, ttl, sessions_memory, pc,
                   req, session, shared, tmp, resp, served, probe>>

----------------------------------------------------------------------------
(* SpecRisk: the risk engine applied to one counter map *)

\* Counter maps around every threshold of the engine; -1 stands for a key the
\* map does not hold.
ProbeMaps ==
    { [k \in {k \in DOMAIN f : f[k] >= 0} |-> f[k]] :
        f \in { [rageClicks |-> r, deadClicks |-> d, hesitations |-> h,
                 idleTime |-> i, mouseJiggles |-> j, scrollCount |-> s] :
                  r \in {-1, 0, 2 * Denom - 1, 2 * Denom, 100 * Denom},
                  d \in {-1, 2 * Denom - 1, 2 * Denom, 7 * Denom},
                  h \in {-1, 3 * Denom - 1, 3 * Denom, 3 * Denom + 1},
                  i \in {-1, 15 * Denom - 1, 15 * Denom, 20 * Denom - 1, 20 * Denom,
                         30 * Denom - 1, 30 * Denom + 1, 40 * Denom},
                  j \in {-1, 6 * Denom - 1, 6 * Denom, 6 * Denom + 1},
                  s \in {-1, 9 * Denom} } }

vars == <<redis_client, redis, ttl, sessions_memory, pc, req, session, shared, tmp,
          resp, served, redis_down, since_conversion, probe>>

machine == <<redis_client, redis, ttl, sessions_memory, pc, req, session, shared,
             tmp, resp, served, redis_down, since_conversion>>

NoProbe == [behaviors |-> <<>>, called |-> FALSE, risk_score |-> 0,
            root_cause |-> "", suggested_action |-> ""]

\* The server after start-up, lines 33-46 and 70: Redis reached or not, no session
Started ==
    /\ redis_client \in BOOLEAN
    /\ redis = <<>>
    /\ ttl = <<>>
    /\ sessions_memory = <<>>
    /\ pc = [w \in Workers |-> "idle"]
    /\ req = [w \in Workers |-> NoRequest]
    /\ session = [w \in Workers |-> NoSession]
    /\ shared = [w \in Workers |-> FALSE]
    /\ tmp = [w \in Workers |-> NoLocals]
    /\ resp = [w \in Workers |-> NoResponse]
    /\ served = 0
    /\ redis_down = FALSE
    /\ since_conversion = <<>>

InitRisk ==
    /\ Started
    /\ probe \in { [behaviors |-> b, called |-> FALSE, risk_score |-> 0,
                    root_cause |-> "", suggested_action |-> ""] : b \in ProbeMaps }

\* lines 465-467: the three calls of the engine on one counter map
Score ==
    /\ ~probe.called
    /\ probe' = [probe EXCEPT
                   !.called = TRUE,
                   !.risk_score = calculate_churn_risk(probe.behaviors),
                   !.root_cause = identify_root_cause(probe.behaviors),
                   !.suggested_action =
                       suggest_intervention(calculate_churn_risk(probe.behaviors),
                                            identify_root_cause(probe.behaviors))]
    /\ UNCHANGED machine

NextRisk == Score

SpecRisk == InitRisk /\ [][NextRisk]_vars

----------------------------------------------------------------------------
(* Spec: request threads running the handlers concurrently.                *)
(* SpecSerial: one request at a time.                                      *)

Init ==
    /\ Started
    /\ probe = NoProbe

\* A request thread takes a request, one of at most limit
Begin(w, tracks, marks, converts, limit) ==
    /\ served < limit
    /\ served' = served + 1
    /\ \/ \E data \in tracks : TrackBegin(w, data)
       \/ \E data \in marks : MarkBegin(w, data)
       \/ \E data \in converts : ConvertBegin(w, data)

\* A request thread executes its next statement
Step(w) ==
    /\ served' = served
    /\ \/ Track441(w) \/ Track442(w) \/ Track446(w) \/ Track449(w) \/ Track454(w)
       \/ Track460(w) \/ Track465(w) \/ Track466(w) \/ Track470(w) \/ Track471(w)
       \/ Track472(w) \/ Track475(w)
       \/ Mark581(w) \/ Mark582(w) \/ Mark583(w) \/ Mark586(w)
       \/ Convert620(w) \/ Convert624(w) \/ Convert625(w) \/ Convert626(w)
       \/ Convert629(w) \/ Convert638(w)
       \/ Recycle(w)

\* The steps by which time goes by
TimeSteps == {TTL_TRACK}

\* Requests of the concurrent runs: one session, counters that cross no
\* threshold, one, and two
ConcTracks ==
    [session_id : {"s1"}, timestamp : {1000}, events : {<<>>},
     behaviors : { <<<<"rageClicks", 2 * Denom>>, <<"deadClicks", 2 * Denom>>>>,
                   <<<<"rageClicks", 1 * Denom>>>>,
                   <<<<"cartRevisits", 1 * Denom>>>> },
     mood : {"happy"}]

ConcMarks ==
    [session_id : {"s1"}, intervention_type : {"discount_popup"}, timestamp : {2000}]

ConcConverts ==
    [session_id : {"s1"}, order_value : {50}, timestamp : {3000}]

\* The number of requests of a concurrent run
MaxRequests == 3

Next ==
    \/ \E w \in Workers : Begin(w, ConcTracks, ConcMarks, ConcConverts, MaxRequests)
    \/ \E w \in Workers : Step(w)
    \/ \E seconds \in TimeSteps : TimePasses(seconds)

Spec == Init /\ [][Next]_vars

\* Ingests the interface rules out: a malformed id, an unknown key after a
\* valid one, a negative value after a valid one, a string value
RefusedTracks ==
    [session_id : {"bad id"}, timestamp : {1700}, events : {<<"click">>},
     behaviors : { <<<<"rageClicks", 2 * Denom>>>> }, mood : {"happy"}]
    \cup
    [session_id : {"s1"}, timestamp : {1700}, events : {<<"click">>},
     behaviors : { <<<<"rageClicks", 3 * Denom>>, <<"clicks", 1 * Denom>>>>,
                   <<<<"rageClicks", 3 * Denom>>, <<"deadClicks", -1>>>>,
                   <<<<"rageClicks", 3 * Denom>>, <<"deadClicks", 0, "string">>>> },
     mood : {"happy"}]

\* An ingest with the value true
BooleanTracks ==
    [session_id : {"s1"}, timestamp : {1700}, events : {<<>>},
     behaviors : { <<<<"deadClicks", 1 * Denom, "bool">>>> }, mood : {"neutral"}]

\* Requests of the serial runs: two sessions, a counter sent high then low, a
\* counter the new session does not hold, a fractional counter, three moods
SerialTracks ==
    [session_id : {"s1"}, timestamp : {1000}, events : {<<>>},
     behaviors : { <<<<"rageClicks", 2 * Denom>>, <<"deadClicks", 2 * Denom>>>>,
                   <<<<"rageClicks", 1 * Denom>>,
                     <<"hesitations", 3 * Denom + 1>>,
                     <<"cartRevisits", 1 * Denom>>>> },
     mood : {"neutral", "happy"}]
    \cup
    [session_id : {"s1"}, timestamp : {1200}, events : {<<>>},
     behaviors : { <<<<"scrollCount", 1 * Denom>>>> }, mood : {"frustrated"}]
    \cup
    [session_id : {"s2"}, timestamp : {1500}, events : {<<"click">>},
     behaviors : { <<<<"rageClicks", 2 * Denom>>, <<"deadClicks", 2 * Denom>>>> },
     mood : {"frustrated"}]
    \cup RefusedTracks \cup BooleanTracks

SerialMarks ==
    [session_id : {"s1", "s2", "bad id"}, intervention_type : {"discount_popup"},
     timestamp : {2000}]
    \cup
    [session_id : {"s1"}, intervention_type : {"live_chat"}, timestamp : {2500}]

SerialConverts ==
    [session_id : {"s1", "s2", "bad id"}, order_value : {50}, timestamp : {3000}]

\* The number of requests of a serial run
MaxSerialRequests == 4

\* One request at a time: a request is taken when no thread is in a handler
NextSerial ==
    \/ /\ \A v \in Workers : pc[v] = "idle"
       /\ \E w \in Workers :
            Begin(w, SerialTracks, SerialMarks, SerialConverts, MaxSerialRequests)
    \/ \E w \in Workers : Step(w)
    \/ \E seconds \in TimeSteps : TimePasses(seconds)

SpecSerial == Init /\ [][NextSerial]_vars

\* Requests of the runs with Redis outages: one session
OutageTracks ==
    [session_id : {"s1"}, timestamp : {1000}, events : {<<>>},
     behaviors : { <<<<"rageClicks", 2 * Denom>>, <<"deadClicks", 2 * Denom>>>> },
     mood : {"neutral"}]

OutageMarks ==
    [session_id : {"s1"}, intervention_type : {"discount_popup"}, timestamp : {2000}]

OutageConverts ==
    [session_id : {"s1"}, order_value : {50}, timestamp : {3000}]

\* The number of requests of a run with outages
MaxOutageRequests == 3

\* One request at a time, with a Redis server that may stop answering and
\* answer again at any moment
NextOutage ==
    \/ /\ \A v \in Workers : pc[v] = "idle"
       /\ \E w \in Workers :
            Begin(w, OutageTracks, OutageMarks, OutageConverts, MaxOutageRequests)
    \/ \E w \in Workers : Step(w)
    \/ \E seconds \in TimeSteps : TimePasses(seconds)
    \/ RedisFails
    \/ RedisRecovers

SpecOutage == Init /\ [][NextOutage]_vars

----------------------------------------------------------------------------
(* Dashboard views, lines 499-532 and 657-699.  Both are functions of the   *)
(* list get_all_sessions_redis returns (lines 104-119) and, for the first,  *)
(* of the clock.  Money is in whole units; the rates and averages the code   *)
(* rounds are kept as integers: salvage_rate in units of 1/10000,           *)
(* avg_salvage_value in units of 1/100.                                     *)

\* A faulty variant: a session last active exactly 300 seconds ago is listed.
is_active_inclusive(current_time, s) ==
    current_time - s.last_active <= 300 * 1000

\* lines 511-514: (current_time - session['last_active']) / 1000 < 300
is_active(current_time, s) ==
    current_time - s.last_active < 300 * 1000

\* lines 515-526, without mood_confidence and mood_scores
summary(current_time, s) ==
    [session_id |-> s.session_id,
     risk_score |-> s.risk_score,
     root_cause |-> s.root_cause,
     suggested_action |-> s.suggested_action,
     last_active |-> (current_time - s.last_active) \div 1000,
     behaviors |-> s.behaviors,
     mood |-> s.mood]

RECURSIVE active_sessions(_, _)
\* lines 508-526: the loop over all_sessions
active_sessions(current_time, all_sessions) ==
    IF all_sessions = <<>> THEN <<>>
    ELSE (IF is_active(current_time, Head(all_sessions))
          THEN <<summary(current_time, Head(all_sessions))>>
          ELSE <<>>)
         \o active_sessions(current_time, Tail(all_sessions))

\* x put into a list sorted by non-increasing risk_score, behind the entries
\* that are not below it
RECURSIVE insert_by_risk(_, _)
insert_by_risk(x, sorted) ==
    IF sorted = <<>> THEN <<x>>
    ELSE IF Head(sorted).risk_score >= x.risk_score
         THEN <<Head(sorted)>> \o insert_by_risk(x, Tail(sorted))
         ELSE <<x>> \o sorted

RECURSIVE sort_by_risk(_, _)
\* line 529: list.sort(key=risk_score, reverse=True), a stable sort; done is
\* the sorted prefix
sort_by_risk(done, rest) ==
    IF rest = <<>> THEN done
    ELSE sort_by_risk(insert_by_risk(Head(rest), done), Tail(rest))

\* lines 504-536
get_all_sessions(current_time, all_sessions) ==
    LET sorted == sort_by_risk(<<>>, active_sessions(current_time, all_sessions))
    IN  [status |-> 200,
         sessions |-> sorted,
         total_sessions |-> Len(sorted),
         high_risk_count |->
             Cardinality({i \in 1..Len(sorted) : sorted[i].risk_score >= 60})]

\* A faulty variant: only the sessions that converted count as high risk.
high_risk_converted(all_sessions) ==
    SelectSeq(all_sessions, LAMBDA s : s.risk_score >= 60
                                       /\ s.conversion_status # "pending")

\* line 662
high_risk_sessions(all_sessions) ==
    SelectSeq(all_sessions, LAMBDA s : s.risk_score >= 60)

\* line 663
salvaged_sessions(all_sessions) ==
    SelectSeq(all_sessions, LAMBDA s : s.conversion_status = "salvaged")

\* line 664
converted_sessions(all_sessions) ==
    SelectSeq(all_sessions,
              LAMBDA s : s.conversion_status \in {"converted", "salvaged"})

RECURSIVE sum_order_value(_)
\* lines 675 and 684: sum(s.get('order_value', 0) for s in ...)
sum_order_value(sessions) ==
    IF sessions = <<>> THEN 0
    ELSE Head(sessions).order_value + sum_order_value(Tail(sessions))

\* round(n / d, places) as a number of 1 / 10^places units, for n >= 0 and
\* d > 0.  The quotients of the lists modelled are never half way between two
\* such numbers, where Python rounds the binary float to the even neighbour.
round_ratio(n, d, places) == (2 * n * 10 ^ places + d) \div (2 * d)

\* lines 657-699
get_salvage_stats(all_sessions) ==
    LET total_salvaged == Len(salvaged_sessions(all_sessions))
        total_high_risk == Len(high_risk_sessions(all_sessions))
        revenue_saved == sum_order_value(salvaged_sessions(all_sessions))
        salvage_rate == IF total_high_risk > 0
                        THEN round_ratio(total_salvaged, total_high_risk, 4)
                        ELSE 0
    IN  [status |-> 200,
         total_salvaged_customers |-> total_salvaged,
         total_revenue_saved |-> revenue_saved,
         salvage_rate |-> salvage_rate,
         intervention_success_rate |-> salvage_rate,
         avg_salvage_value |-> IF total_salvaged > 0
                               THEN round_ratio(revenue_saved, total_salvaged, 2)
                               ELSE 0,
         total_high_risk |-> total_high_risk,
         total_conversions |-> Len(converted_sessions(all_sessions)),
         total_revenue |-> sum_order_value(converted_sessions(all_sessions)),
         salvaged_sessions |-> salvaged_sessions(all_sessions)]

----------------------------------------------------------------------------
(* SpecViews: the dashboard views applied to one list of sessions *)

\* The number of sessions of a list
MaxSessions == 3

\* The clock of the views, in milliseconds
ViewClock == 1000000

\* What a view reads of a stored session: a score, a conversion status and
\* an order value that can go together, and the seconds since it was active
ViewProfiles ==
    { <<10, "pending", 0>>, <<60, "pending", 0>>, <<60, "salvaged", 50>> }
    \X {299, 300, 301}
    \cup
    { <<10, "converted", 20>>, <<60, "converted", 20>>, <<100, "salvaged", 30>> }
    \X {299}

\* Sessions last active 299, 300 and 301 seconds before the clock
ViewSessions(session_id) ==
    { [new_session(session_id, 0) EXCEPT
           !.last_active = ViewClock - p[2] * 1000,
           !.risk_score = p[1][1],
           !.suggested_action = suggest_intervention(p[1][1], "Normal user behavior"),
           !.conversion_status = p[1][2],
           !.order_value = p[1][3]] :
        p \in ViewProfiles }

\* The session ids of a list, in the order of the list
ViewIds == <<"s1", "s2", "s3", "s4", "s5">>

RECURSIVE ViewListsOf(_)
\* The lists of n sessions get_all_sessions_redis may return: one session per id
ViewListsOf(n) ==
    IF n = 0 THEN {<<>>}
    ELSE {Append(l, s) : l \in ViewListsOf(n - 1), s \in ViewSessions(ViewIds[n])}

InitViews ==
    /\ Started
    /\ probe \in [called : {FALSE}, view : {""}, all_sessions : UNION {ViewListsOf(n) : n \in 0..MaxSessions},
                  current_time : {ViewClock}, response : {NoResponse}]

\* GET /api/sessions
Sessions ==
    /\ ~probe.called
    /\ probe' = [probe EXCEPT
                    !.called = TRUE,
                    !.view = "sessions",
                    !.response = get_all_sessions(probe.current_time,
                                                  probe.all_sessions)]
    /\ UNCHANGED machine

\* GET /api/salvage-stats
SalvageStats ==
    /\ ~probe.called
    /\ probe' = [probe EXCEPT
                    !.called = TRUE,
                    !.view = "salvage-stats",
                    !.response = get_salvage_stats(probe.all_sessions)]
    /\ UNCHANGED machine

NextViews == Sessions \/ SalvageStats

SpecViews == InitViews /\ [][NextViews]_vars

----------------------------------------------------------------------------
(* SpecRaise: the risk engine on a counter map and on the same map with one *)
(* counter raised.                                                          *)

\* The values a counter is raised to: around the thresholds of lines 256-265
\* and the cap of line 278
RaiseValues ==
    {1, 2 * Denom - 1, 2 * Denom, 3 * Denom - 1, 3 * Denom, 3 * Denom + 1,
     6 * Denom - 1, 6 * Denom, 7 * Denom, 15 * Denom, 20 * Denom - 1, 20 * Denom,
     30 * Denom - 1, 30 * Denom, 30 * Denom + 1, 40 * Denom, 100 * Denom}

InitRaise ==
    /\ Started
    /\ probe \in { [behaviors |-> b, called |-> FALSE, risk_score |-> 0,
                    raised |-> b, raised_score |-> 0] : b \in ProbeMaps }

\* lines 446 and 465 twice: the score of a map, and the score of the map after
\* one of its counters has grown
Raise(key, value) ==
    /\ ~probe.called
    /\ value > Get(probe.behaviors, key)
    /\ probe' = [probe EXCEPT
                   !.called = TRUE,
                   !.risk_score = calculate_churn_risk(probe.behaviors),
                   !.raised = merge(probe.behaviors, key, value),
                   !.raised_score =
                       calculate_churn_risk(merge(probe.behaviors, key, value))]
    /\ UNCHANGED machine

NextRaise ==
    \E key \in {"rageClicks", "deadClicks", "hesitations", "idleTime",
                "mouseJiggles", "scrollCount"}, value \in RaiseValues :
        Raise(key, value)

SpecRaise == InitRaise /\ [][NextRaise]_vars

----------------------------------------------------------------------------
(* SpecSalvage: concurrent requests for a session the in-memory store holds, *)
(* ingested once and marked.                                                 *)

\* s1 after POST /api/track {rageClicks: 1, mood: happy} at 1000 and POST
\* /api/intervention at 2000
MarkedSession ==
    [new_session("s1", 1000) EXCEPT
        !.behaviors = merge(@, "rageClicks", 1 * Denom),
        !.suggested_action = suggest_intervention(0, "Normal user behavior"),
        !.mood = "happy",
        !.mood_history = <<[mood |-> "happy", timestamp |-> 1000]>>,
        !.intervention_triggered = TRUE,
        !.intervention_type = Some("discount_popup"),
        !.intervention_time = Some(2000)]

\* The server without Redis, holding that session, no request in a handler
InitSalvage ==
    /\ redis_client = FALSE
    /\ redis = <<>>
    /\ ttl = <<>>
    /\ sessions_memory = ("s1" :> MarkedSession)
    /\ pc = [w \in Workers |-> "idle"]
    /\ req = [w \in Workers |-> NoRequest]
    /\ session = [w \in Workers |-> NoSession]
    /\ shared = [w \in Workers |-> FALSE]
    /\ tmp = [w \in Workers |-> NoLocals]
    /\ resp = [w \in Workers |-> NoResponse]
    /\ served = 0
    /\ redis_down = FALSE
    /\ since_conversion = <<>>
    /\ probe = NoProbe

\* The number of requests of a run that starts from the marked session
MaxSalvageRequests == 3

NextSalvage ==
    \/ \E w \in Workers :
         Begin(w, ConcTracks, ConcMarks, ConcConverts, MaxSalvageRequests)
    \/ \E w \in Workers : Step(w)

SpecSalvage == InitSalvage /\ [][NextSalvage]_vars

----------------------------------------------------------------------------
(* Claims about the risk engine, checked under SpecRisk *)

\* The thresholds of the scoring gate as the specification lists them
GateThreshold(k) ==
    CASE k = "rageClicks" -> 2
      [] k = "deadClicks" -> 2
      [] k = "hesitations" -> 3
      [] k = "idleTime" -> 20
      [] k = "mouseJiggles" -> 6

SignalsCrossed(b) ==
    Cardinality({k \in {"rageClicks", "deadClicks", "hesitations", "idleTime",
                        "mouseJiggles"} : Get(b, k) >= GateThreshold(k) * Denom})

\* rageClicks*20 + deadClicks*10 + hesitations*5 + mouseJiggles*2
\* + min(idleTime/2, 15)*2, in units of 1 / Denom
WeightedSum(b) ==
    20 * Get(b, "rageClicks") + 10 * Get(b, "deadClicks")
    + 5 * Get(b, "hesitations") + 2 * Get(b, "mouseJiggles")
    + Min(Get(b, "idleTime"), 30 * Denom)

\* C6: the score calculate_churn_risk returns for a map of non-negative
\* counters is an integer in [0,100].
C6_ScoreInRange ==
    probe.called => probe.risk_score \in 0..100

\* C6 witness: a call whose weighted sum is above 100 and is clamped.
C6_Witness ==
    /\ probe.called
    /\ SignalsCrossed(probe.behaviors) >= 2
    /\ WeightedSum(probe.behaviors) \div Denom > 100
    /\ probe.risk_score = 100

\* C7: with fewer than 2 of the five thresholds crossed the score is
\* min(20, signal_count * 10), so at most 20, whatever the size of a counter.
C7_CappedBelowTwoSignals ==
    (probe.called /\ SignalsCrossed(probe.behaviors) < 2)
        => /\ probe.risk_score = Min(20, SignalsCrossed(probe.behaviors) * 10)
           /\ probe.risk_score <= 20

\* C7 witness: rageClicks = 100 alone gives 10.
C7_Witness ==
    /\ probe.called
    /\ Get(probe.behaviors, "rageClicks") = 100 * Denom
    /\ SignalsCrossed(probe.behaviors) = 1
    /\ probe.risk_score = 10

\* C8: with at least 2 thresholds crossed the score is the weighted sum,
\* truncated and clamped to 100, scrollCount having no part in it; rageClicks = 2
\* and deadClicks = 2 with everything else 0 gives 60.
C8_WeightedAtTwoSignals ==
    (probe.called /\ SignalsCrossed(probe.behaviors) >= 2)
        => /\ probe.risk_score = Min(100, WeightedSum(probe.behaviors) \div Denom)
           /\ (/\ Get(probe.behaviors, "rageClicks") = 2 * Denom
               /\ Get(probe.behaviors, "deadClicks") = 2 * Denom
               /\ \A k \in DOMAIN probe.behaviors \ {"rageClicks", "deadClicks"} :
                      probe.behaviors[k] = 0)
              => probe.risk_score = 60

\* C8 witness: a call with two signals, a scroll count, and a weighted sum
\* below 100 that is not a whole number.
C8_Witness ==
    /\ probe.called
    /\ SignalsCrossed(probe.behaviors) >= 2
    /\ Get(probe.behaviors, "scrollCount") > 0
    /\ WeightedSum(probe.behaviors) % Denom # 0
    /\ probe.risk_score < 100
    /\ probe.risk_score = WeightedSum(probe.behaviors) \div Denom

\* C9: identify_root_cause reports a cause other than "Normal user behavior"
\* exactly when one of rageClicks >= 2, deadClicks >= 2, idleTime >= 15,
\* hesitations >= 3 holds, whatever the number of scoring signals.
C9_RootCauseUngated ==
    probe.called =>
        ((probe.root_cause # "Normal user behavior")
            <=> \/ Get(probe.behaviors, "rageClicks") >= 2 * Denom
                \/ Get(probe.behaviors, "deadClicks") >= 2 * Denom
                \/ Get(probe.behaviors, "idleTime") >= 15 * Denom
                \/ Get(probe.behaviors, "hesitations") >= 3 * Denom)

\* C9 witness: idleTime = 15 alone has a cause and a capped score.
C9_Witness ==
    /\ probe.called
    /\ Get(probe.behaviors, "idleTime") = 15 * Denom
    /\ \A k \in DOMAIN probe.behaviors \ {"idleTime"} : probe.behaviors[k] = 0
    /\ probe.root_cause = "User confusion or distraction (extended idle)"
    /\ probe.risk_score <= 20

----------------------------------------------------------------------------
(* Claims about the stored sessions *)

\* The store after a step
StoreAfter == IF redis_client THEN redis' ELSE sessions_memory'

\* No counter of a session that stays in the store is lowered or lost by a step
CountersKept ==
    \A id \in DOMAIN Store \cap DOMAIN StoreAfter :
        \A k \in DOMAIN Store[id].behaviors :
            /\ k \in DOMAIN StoreAfter[id].behaviors
            /\ StoreAfter[id].behaviors[k] >= Store[id].behaviors[k]

\* C1: for every session id, under every interleaving of the requests, a
\* stored behavior counter is never lower than it was in an earlier state of
\* the session.
C1_CountersNeverDecrease == [][CountersKept]_vars

\* The keys of a delta, and the value a delta has for a key
DeltaKeys(delta) == {delta[i][1] : i \in 1..Len(delta)}

DeltaValue(delta, key) ==
    delta[CHOOSE i \in 1..Len(delta) : delta[i][1] = key][2]

\* C2: when requests run one at a time, an answered ingest leaves every key
\* of its delta at max(value stored before the ingest or 0, incoming value) and
\* every other key at the value stored before; a lower second value leaves
\* the first, neither the sum nor the second.
C2_SerialMaxMerge ==
    \A w \in Workers :
        (/\ pc[w] = "returned"
         /\ "risk_score" \in DOMAIN resp[w]
         /\ req[w].session_id \in DOMAIN Store)
        => LET old == tmp[w].read.behaviors
               now == Store[req[w].session_id].behaviors
               keys == DeltaKeys(req[w].behaviors)
           IN  /\ DOMAIN now = DOMAIN old \cup keys
               /\ \A k \in keys :
                      now[k] = Max(Get(old, k), DeltaValue(req[w].behaviors, k))
               /\ \A k \in DOMAIN old \ keys : now[k] = old[k]

\* C2 witness: an ingest answered with rageClicks = 1 for a session that held
\* rageClicks = 2 and deadClicks = 2 and no cartRevisits: rageClicks is still
\* 2, deadClicks is kept, cartRevisits is stored.
C2_Witness ==
    \E w \in Workers :
        /\ pc[w] = "returned"
        /\ "risk_score" \in DOMAIN resp[w]
        /\ req[w].session_id \in DOMAIN Store
        /\ DeltaKeys(req[w].behaviors)
               = {"rageClicks", "hesitations", "cartRevisits"}
        /\ DeltaValue(req[w].behaviors, "rageClicks") = 1 * Denom
        /\ tmp[w].read.behaviors["rageClicks"] = 2 * Denom
        /\ tmp[w].read.behaviors["deadClicks"] = 2 * Denom
        /\ "cartRevisits" \notin DOMAIN tmp[w].read.behaviors
        /\ Store[req[w].session_id].behaviors["rageClicks"] = 2 * Denom
        /\ Store[req[w].session_id].behaviors["deadClicks"] = 2 * Denom
        /\ Store[req[w].session_id].behaviors["cartRevisits"] = 1 * Denom

\* A conversion_status other than pending is left as it is by a step
StatusKept ==
    \A id \in DOMAIN Store \cap DOMAIN StoreAfter :
        Store[id].conversion_status # "pending"
            => StoreAfter[id].conversion_status = Store[id].conversion_status

\* C4: when requests run one at a time and the session stays in the store,
\* its conversion_status, once it has left pending, is changed by no
\* operation.
C4_StatusChangesOnce == [][StatusKept]_vars

\* The session of a thread after a step
ObjAfter(w) ==
    IF shared'[w] THEN sessions_memory'[req'[w].session_id]
    ELSE session'[w]

\* The salvage rule of the specification, on the record a conversion read
Salvaged(w) ==
    tmp[w].read.risk_score >= 60 /\ tmp[w].read.intervention_triggered

\* C5: record_conversion sets conversion_status to salvaged exactly when the
\* record it read has risk_score >= 60 and intervention_triggered, to
\* converted otherwise, and answers salvaged = that boolean and revenue_saved =
\* order_value when salvaged, 0 otherwise.
C5_SalvageRule ==
    [][\A w \in Workers :
          /\ (pc[w] = "c624" /\ pc'[w] = "c625")
                => ObjAfter(w).conversion_status
                       = IF Salvaged(w) THEN "salvaged" ELSE "converted"
          /\ (pc[w] = "c629" /\ pc'[w] = "c638" /\ redis_client)
                => redis'[req[w].session_id].conversion_status
                       = IF Salvaged(w) THEN "salvaged" ELSE "converted"
          /\ (pc[w] = "c638" /\ pc'[w] = "returned")
                => /\ resp'[w].salvaged = Salvaged(w)
                   /\ resp'[w].revenue_saved
                          = IF Salvaged(w) THEN req[w].order_value ELSE 0]_vars

\* C5 witness: a conversion answered as salvaged, with the order value as
\* revenue saved, for a record read with a score of 60 and an intervention.
C5_Witness ==
    \E w \in Workers :
        /\ pc[w] = "returned"
        /\ "salvaged" \in DOMAIN resp[w]
        /\ tmp[w].read.risk_score = 60
        /\ tmp[w].read.intervention_triggered
        /\ resp[w].salvaged
        /\ resp[w].revenue_saved = req[w].order_value
        /\ resp[w].conversion_status = "salvaged"

\* No thread is inside a handler: every request taken has been answered
Quiet == \A w \in Workers : pc[w] \in {"idle", "returned"}

\* The derived fields of a record are those of its own counters
ScoreFresh(s) ==
    /\ s.risk_score = calculate_churn_risk(s.behaviors)
    /\ s.root_cause = identify_root_cause(s.behaviors)

\* C3: after any interleaving of ingest, mark_intervention and
\* record_conversion, the risk_score and root_cause of every stored record are
\* those of the record's own behaviors map.
C3_ScoreNeverStale ==
    Quiet => \A id \in DOMAIN Store : ScoreFresh(Store[id])

\* The recommendation the specification ties to a score
Band(risk_score) ==
    CASE risk_score < 30 -> "Monitor session - no intervention needed"
      [] risk_score >= 30 /\ risk_score < 60 ->
             "Prepare proactive outreach - user showing mild frustration"
      [] risk_score >= 60 ->
             "IMMEDIATE INTERVENTION - Trigger discount popup or live chat"

\* C10: the suggested_action of every stored record is the one of the band of
\* the record's risk_score, whatever its root_cause.
C10_ActionFollowsScore ==
    Quiet => \A id \in DOMAIN Store :
                 Store[id].suggested_action = Band(Store[id].risk_score)

----------------------------------------------------------------------------
(* Claims about refused requests *)

\* Thread w takes a request in this step
Takes(w) == pc[w] = "idle" /\ pc'[w] # "idle"

\* The kind of a request, by the fields of its body
IsIngest(data) == "behaviors" \in DOMAIN data

\* A session id of the requests that is well formed
WellFormed(session_id) == session_id \in {"s1", "s2"}

\* C11: mark_intervention and record_conversion for a well-formed session id
\* with no record in the store answer "not found", which is not the answer to
\* a malformed id, and leave the store as it was, with no record for that id.
C11_NotFoundLeavesStore ==
    [][\A w \in Workers :
          (Takes(w) /\ ~IsIngest(req'[w]))
          => /\ (WellFormed(req'[w].session_id)
                 /\ req'[w].session_id \notin DOMAIN Store)
                => /\ pc'[w] = "returned"
                   /\ resp'[w].status = 404
                   /\ resp'[w].error = "Session not found"
                   /\ StoreAfter = Store
             /\ ~WellFormed(req'[w].session_id)
                => /\ pc'[w] = "returned"
                   /\ resp'[w].status = 400
                   /\ resp'[w].error # "Session not found"]_vars

\* C11 witness: a conversion for s2 answered "not found" while s1 is stored
\* and s2 is not.
C11_Witness ==
    \E w \in Workers :
        /\ pc[w] = "returned"
        /\ "order_value" \in DOMAIN req[w]
        /\ req[w].session_id = "s2"
        /\ resp[w].status = 404
        /\ DOMAIN Store = {"s1"}

\* The items of a delta that the interface rules out: a key outside the
\* enumerated names, a value that is no number, a negative value
BadItems(delta) ==
    {i \in 1..Len(delta) : \/ delta[i][1] \notin valid_behaviors
                           \/ Len(delta[i]) = 3
                           \/ delta[i][2] < 0}

\* The validation errors that name an offending field of the request
NamingErrors(data) ==
    (IF WellFormed(data.session_id) THEN {} ELSE {"Invalid session ID format"})
    \cup {"Unknown behavior type: " \o data.behaviors[i][1] :
              i \in BadItems(data.behaviors)}
    \cup {"Invalid value for " \o data.behaviors[i][1] :
              i \in BadItems(data.behaviors)}

\* C12: an ingest with a malformed session id, or with a delta holding an
\* unknown key or a negative or non-numeric value, is answered with a
\* validation error naming the offending field and leaves the store as it was.
C12_RefusedIngestLeavesStore ==
    [][\A w \in Workers :
          (/\ Takes(w)
           /\ IsIngest(req'[w])
           /\ ~WellFormed(req'[w].session_id) \/ BadItems(req'[w].behaviors) # {})
          => /\ pc'[w] = "returned"
             /\ resp'[w].status = 400
             /\ resp'[w].error \in NamingErrors(req'[w])
             /\ StoreAfter = Store]_vars

----------------------------------------------------------------------------
(* Claims about the store: outages and expiry *)

\* C13: a failure of the store during ingest, mark_intervention or
\* record_conversion never fails the operation: it is never answered with an
\* internal error, nor with "not found" for a session the store holds.
C13_StoreFailureNeverFails ==
    [][\A w \in Workers :
          (pc[w] # "returned" /\ pc'[w] = "returned")
          => /\ resp'[w].status # 500
             /\ resp'[w].status = 404
                => req'[w].session_id \notin DOMAIN Store]_vars

\* C14: a session whose conversion was stored less than 3600 seconds ago is
\* in the store, whatever ingest or mark_intervention did to it since.
C14_ConvertedKeptAnHour ==
    \A id \in DOMAIN since_conversion :
        since_conversion[id] < TTL_CONVERSION => id \in DOMAIN Store

----------------------------------------------------------------------------
(* Claims about the dashboard views, checked under SpecViews *)

\* The positions of the sessions of a list last active less than 300 seconds
\* before now
Recent(all, now) ==
    {j \in 1..Len(all) : now - all[j].last_active < 300 * 1000}

\* C15: list_active_sessions returns exactly the sessions with
\* (now - last_active) / 1000 < 300, one last active 299 s ago among them and
\* one 301 s ago not, by non-increasing risk_score, with total_sessions the
\* number returned and high_risk_count the number returned with a score >= 60.
C15_ActiveListing ==
    (probe.called /\ probe.view = "sessions")
    => LET all == probe.all_sessions
           now == probe.current_time
           out == probe.response.sessions
       IN  /\ Len(out) = Cardinality(Recent(all, now))
           /\ \A j \in Recent(all, now) :
                  \E i \in 1..Len(out) :
                      /\ out[i].session_id = all[j].session_id
                      /\ out[i].risk_score = all[j].risk_score
           /\ \A j \in 1..Len(all) :
                  /\ all[j].last_active = now - 299 * 1000 => j \in Recent(all, now)
                  /\ all[j].last_active = now - 301 * 1000 => j \notin Recent(all, now)
           /\ \A i \in 1..(Len(out) - 1) :
                  out[i].risk_score >= out[i + 1].risk_score
           /\ probe.response.total_sessions = Len(out)
           /\ probe.response.high_risk_count
                  = Cardinality({i \in 1..Len(out) : out[i].risk_score >= 60})

\* C15 witness: of three sessions with scores 10, 60 and 100, the second last
\* active 301 s ago and the others 299 s ago, the third and the first are
\* returned, in that order, with one high-risk session.
C15_Witness ==
    /\ probe.called
    /\ probe.view = "sessions"
    /\ Len(probe.all_sessions) = 3
    /\ probe.all_sessions[1].risk_score = 10
    /\ probe.all_sessions[1].last_active = probe.current_time - 299 * 1000
    /\ probe.all_sessions[2].risk_score = 60
    /\ probe.all_sessions[2].last_active = probe.current_time - 301 * 1000
    /\ probe.all_sessions[3].risk_score = 100
    /\ probe.all_sessions[3].last_active = probe.current_time - 299 * 1000
    /\ Len(probe.response.sessions) = 2
    /\ probe.response.sessions[1].session_id = "s3"
    /\ probe.response.sessions[2].session_id = "s1"
    /\ probe.response.total_sessions = 2
    /\ probe.response.high_risk_count = 1

RECURSIVE OrderValues(_, _)
\* The sum of order_value over the sessions of a list with one of the statuses
OrderValues(all, statuses) ==
    IF all = <<>> THEN 0
    ELSE (IF Head(all).conversion_status \in statuses
          THEN Head(all).order_value ELSE 0)
         + OrderValues(Tail(all), statuses)

HighRiskCount(all) == Cardinality({j \in 1..Len(all) : all[j].risk_score >= 60})

SalvagedCount(all) ==
    Cardinality({j \in 1..Len(all) : all[j].conversion_status = "salvaged"})

\* What salvage_stats reports besides the rate: the two sums, over all the
\* sessions of the list, and no average without a salvaged session
SumsReported ==
    /\ probe.response.total_revenue_saved
           = OrderValues(probe.all_sessions, {"salvaged"})
    /\ probe.response.total_revenue
           = OrderValues(probe.all_sessions, {"converted", "salvaged"})
    /\ SalvagedCount(probe.all_sessions) = 0
           => probe.response.avg_salvage_value = 0
    /\ HighRiskCount(probe.all_sessions) = 0 => probe.response.salvage_rate = 0

TwiceApart(a, b) == IF a >= b THEN 2 * (a - b) ELSE 2 * (b - a)

----------------------------------------------------------------------------
(* Claims about the mood history and the intervention *)

\* C17: when requests run one at a time, an answered ingest has appended one
\* entry, of its mood, to the mood_history the session had before it when that
\* mood is not neutral and is not the mood the session had before it, has
\* appended nothing otherwise, and has made its mood the session's mood in
\* both cases.
C17_MoodHistoryAppends ==
    \A w \in Workers :
        (/\ pc[w] = "returned"
         /\ "risk_score" \in DOMAIN resp[w]
         /\ req[w].session_id \in DOMAIN Store)
        => LET old == tmp[w].read
               now == Store[req[w].session_id]
               grows == req[w].mood # "neutral" /\ req[w].mood # old.mood
           IN  /\ Len(now.mood_history)
                      = Len(old.mood_history) + (IF grows THEN 1 ELSE 0)
               /\ SubSeq(now.mood_history, 1, Len(old.mood_history))
                      = old.mood_history
               /\ grows => now.mood_history[Len(now.mood_history)].mood = req[w].mood
               /\ now.mood = req[w].mood

\* C17 witness: the fourth ingest of a session, frustrated after happy was
\* sent twice: two entries, happy and frustrated.
C17_Witness ==
    \E w \in Workers :
        /\ pc[w] = "returned"
        /\ "risk_score" \in DOMAIN resp[w]
        /\ served = 4
        /\ req[w].mood = "frustrated"
        /\ tmp[w].read.mood = "happy"
        /\ Len(tmp[w].read.mood_history) = 1
        /\ req[w].session_id \in DOMAIN Store
        /\ Len(Store[req[w].session_id].mood_history) = 2
        /\ Store[req[w].session_id].mood_history[1].mood = "happy"
        /\ Store[req[w].session_id].mood_history[2].mood = "frustrated"

\* C18: when requests run one at a time, a step leaves the intervention_type
\* and the intervention_time of a stored session that holds both at the
\* values it holds, as long as the session stays in the store.
C18_InterventionSetOnce ==
    [][\A id \in DOMAIN Store \cap DOMAIN StoreAfter :
           (Store[id].intervention_type # None /\ Store[id].intervention_time # None)
           => /\ StoreAfter[id].intervention_type = Store[id].intervention_type
              /\ StoreAfter[id].intervention_time = Store[id].intervention_time]_vars

----------------------------------------------------------------------------
(* Claims about concurrent requests *)

\* Thread w completes a store write of its own copy of a session: line 475,
\* 586 or 629 run by a thread that does not hold the stored dict itself
WritesOwnCopy(w) ==
    /\ pc[w] \in {"t475", "i586", "c629"}
    /\ pc'[w] # pc[w]
    /\ ~shared[w]

\* C19: with concurrent requests, a step that lowers or loses a counter of a
\* session that stays in the store is the store write of a request that
\* wrote its own copy of the session and, when that request is an ingest,
\* had read at line 408 something other than the record it replaces: the
\* lowering is a read and a write interleaved with another request's write.
C19_LoweringIsStaleWrite ==
    [][~CountersKept =>
          \E w \in Workers :
              /\ WritesOwnCopy(w)
              /\ req[w].session_id \in DOMAIN Store
              /\ pc[w] = "t475" => tmp[w].read # Store[req[w].session_id]]_vars

\* C19 witness: two ingests of one session have both read from Redis the
\* record an earlier ingest stored (one of its counters is not zero), both
\* have returned success, and the stored record holds less for a key than
\* one of them supplied.
C19_Witness ==
    \E w \in Workers, v \in Workers :
        /\ w # v
        /\ pc[w] = "returned" /\ pc[v] = "returned"
        /\ "risk_score" \in DOMAIN resp[w] /\ "risk_score" \in DOMAIN resp[v]
        /\ req[w].session_id = req[v].session_id
        /\ redis_client
        /\ tmp[w].read # NoSession
        /\ tmp[w].read = tmp[v].read
        /\ \E k \in DOMAIN tmp[w].read.behaviors : tmp[w].read.behaviors[k] > 0
        /\ req[w].session_id \in DOMAIN Store
        /\ \E i \in DOMAIN req[w].behaviors :
               LET key == req[w].behaviors[i][1]
               IN  /\ key \in DOMAIN Store[req[w].session_id].behaviors
                   /\ Store[req[w].session_id].behaviors[key] < req[w].behaviors[i][2]

\* C20: with concurrent requests, no step takes a stored session whose
\* conversion_status is converted or salvaged back to pending while the
\* session stays in the store.
C20_NeverBackToPending ==
    [][\A id \in DOMAIN Store \cap DOMAIN StoreAfter :
           Store[id].conversion_status # "pending"
           => StoreAfter[id].conversion_status # "pending"]_vars

----------------------------------------------------------------------------
(* Claims about what the requests leave in a record *)

\* C21: when requests run one at a time, no two consecutive entries of a
\* stored session's mood_history carry the same mood.
C21_NoRepeatedMood ==
    \A id \in DOMAIN Store :
        \A i \in 1..(Len(Store[id].mood_history) - 1) :
            Store[id].mood_history[i].mood # Store[id].mood_history[i + 1].mood

\* The fields of a session other than the three of an intervention
Rest(s) ==
    [k \in DOMAIN s \ {"intervention_triggered", "intervention_type",
                       "intervention_time"} |-> s[k]]

\* Thread w executes a statement of mark_intervention after its line 576
MarkSteps(w) == pc[w] \in {"i581", "i582", "i583", "i586"} /\ pc'[w] # pc[w]

\* C22: when requests run one at a time, a mark_intervention that found its
\* session starts from the stored record, changes nothing of its record but
\* intervention_triggered, intervention_type and intervention_time in any of
\* its statements, stores that record with the three fields set from the
\* request, and leaves the record of every other session as it was.
C22_MarkFrame ==
    [][\A w \in Workers :
          LET id == req'[w].session_id
          IN  /\ (Takes(w) /\ pc'[w] = "i581")
                 => /\ StoreAfter = Store
                    /\ ObjAfter(w) = Store[id]
              /\ MarkSteps(w)
                 => /\ Rest(ObjAfter(w)) = Rest(Obj(w))
                    /\ DOMAIN StoreAfter \ {id} = DOMAIN Store \ {id}
                    /\ \A other \in DOMAIN Store \ {id} :
                           StoreAfter[other] = Store[other]
                    /\ (pc[w] # "i586" /\ id \in DOMAIN Store)
                       => /\ id \in DOMAIN StoreAfter
                          /\ Rest(StoreAfter[id]) = Rest(Store[id])
                    /\ pc[w] = "i586"
                       => /\ pc'[w] = "returned"
                          /\ resp'[w].status = 200
                          /\ id \in DOMAIN StoreAfter
                          /\ StoreAfter[id] = Obj(w)
                          /\ Obj(w).intervention_triggered
                          /\ Obj(w).intervention_type = Some(req[w].intervention_type)
                          /\ Obj(w).intervention_time = Some(req[w].timestamp)]_vars

\* C22 witness: a mark of s1 has returned success; s1 holds counters, a score
\* of 60 and a mood history, it was converted before, and s2 is stored too.
C22_Witness ==
    \E w \in Workers :
        /\ pc[w] = "returned"
        /\ "intervention_type" \in DOMAIN req[w]
        /\ resp[w].status = 200
        /\ {"s1", "s2"} \subseteq DOMAIN Store
        /\ req[w].session_id = "s1"
        /\ Store["s1"].intervention_type = Some(req[w].intervention_type)
        /\ Store["s1"].risk_score >= 60
        /\ Store["s1"].conversion_status # "pending"

\* calculate_churn_risk does not decrease when one counter grows; a counter
\* map grows to any larger map one counter at a time.
ChurnRiskMonotone ==
    probe.called => probe.raised_score >= probe.risk_score

\* A counter grows across the switch from the capped branch to the weighted
\* branch
ChurnRiskSwitch ==
    /\ probe.called
    /\ frustration_signals(probe.behaviors) = 1
    /\ frustration_signals(probe.raised) = 2
    /\ probe.risk_score = 10
    /\ probe.raised_score > 20

\* C23: when requests run one at a time, no step lowers the stored
\* risk_score of a session that stays in the store.
C23_ScoreNeverDecreases ==
    [][\A id \in DOMAIN Store \cap DOMAIN StoreAfter :
           StoreAfter[id].risk_score >= Store[id].risk_score]_vars

\* C23 witness: two ingests have taken a session to three signals and the
\* weighted branch, and a later ingest, of counters that alone score below
\* 20, has left the score where it was.
C23_Witness ==
    \E w \in Workers :
        /\ pc[w] = "returned"
        /\ "risk_score" \in DOMAIN resp[w]
        /\ req[w].session_id \in DOMAIN Store
        /\ tmp[w].read.risk_score > 20
        /\ calculate_churn_risk(
               [k \in DeltaKeys(req[w].behaviors) |->
                   DeltaValue(req[w].behaviors, k)]) < 20
        /\ Store[req[w].session_id].risk_score = tmp[w].read.risk_score
        /\ frustration_signals(Store[req[w].session_id].behaviors) = 3

\* The state SpecSalvage starts from is a state of the concurrent runs: the
\* store after an ingest and a mark, every request answered.
MarkedSessionStored ==
    /\ ~redis_client
    /\ \A w \in Workers : pc[w] = "idle"
    /\ sessions_memory = ("s1" :> MarkedSession)

\* C24: under every interleaving of the requests, every stored session whose
\* conversion_status is salvaged has risk_score >= 60 and
\* intervention_triggered.
C24_SalvagedIsHighRisk ==
    \A id \in DOMAIN Store :
        Store[id].conversion_status = "salvaged"
        => Store[id].risk_score >= 60 /\ Store[id].intervention_triggered

====
